---------------------------- MODULE Spec2Model ----------------------------
(***************************************************************************)
(* The command-line entry point of the thunder installer / supervisor      *)
(* (src/main.rs): the install manifest store kept in /etc/.thunder          *)
(* (InstallConfig::write_to_file, read_from_file, remove_file) and the     *)
(* dispatch of the seven subcommands in main().                            *)
(*                                                                         *)
(* Text is modelled as a sequence of one-character strings, the manifest   *)
(* file as the flat sequence of characters on disk (line feeds included),  *)
(* so that formatting and parsing are computed the way the code computes   *)
(* them.  One command-line invocation runs at a time; each call made by    *)
(* main() is one step.  The modules install, daemon and serve are not part *)
(* of main.rs; their effect on the state of this model (the manifest file  *)
(* and the PID file) follows the written design of those components.       *)
(*                                                                         *)
(* File-system faults: creating or deleting /etc/.thunder fails when /etc  *)
(* is not writable (etcWritable = FALSE); writes to the freshly created    *)
(* file and reads of an existing file are taken to succeed.  Parsed        *)
(* numbers stay far below 2^32, so u32 overflow in parse() is not reached. *)
(***************************************************************************)
EXTENDS Integers, Sequences, FiniteSets, TLC

VARIABLES
    file,            \* /etc/.thunder: [exists, content]
    etcWritable,     \* whether File::create / fs::remove_file on /etc succeed
    pidFile,         \* supervisor PID file: "absent", "live" or "stale"
    cmd,             \* subcommand of the running invocation, "none" when idle
    pc,              \* position of the invocation inside its match arm
    config,          \* the InstallConfig parsed from the command line (install)
    install_config,  \* the manifest read in this invocation, as an Option
    exit,            \* "running", "Ok", or the error main() returned
    events,          \* calls made by main() in this invocation: [call, res]
    lastOp,          \* last manifest-store call of this invocation
    component,       \* last component constructed / run, with its argument
    installSeq,      \* first install since the last uninstall
    removeRun        \* remove_file calls since the file was last created

vars == <<file, etcWritable, pidFile, cmd, pc, config, install_config, exit,
          events, lastOp, component, installSeq, removeRun>>

---------------------------------------------------------------------------
(* Bounds of the model.                                                    *)

\* largest uid / gid given on the command line
MaxUid == 10

\* remove_file calls in a row that are counted
MaxRemoveRun == 2

---------------------------------------------------------------------------
(* Text.                                                                   *)

LF == "\n"

\* a byte of an OsString that is not valid UTF-8, and what display() prints
InvalidByte == "\\xFF"
ReplacementChar == "U+FFFD"

K_uid ==
    <<"u", "i", "d">>
K_gid ==
    <<"g", "i", "d">>
K_config_path ==
    <<"c", "o", "n", "f", "i", "g", "_", "p", "a", "t", "h">>
K_download_path ==
    <<"d", "o", "w", "n", "l", "o", "a", "d", "_", "p", "a", "t", "h">>
K_mount_bind_download_path ==
    <<"m", "o", "u", "n", "t", "_", "b", "i", "n", "d", "_", "d", "o", "w",
      "n", "l", "o", "a", "d", "_", "p", "a", "t", "h">>

DigitChars == <<"0", "1", "2", "3", "4", "5", "6", "7", "8", "9">>

Range(s) == {s[i] : i \in DOMAIN s}

\* Display for u32: the decimal digits, no sign, no padding
RECURSIVE DisplayU32(_)
DisplayU32(n) ==
    IF n < 10 THEN <<DigitChars[n + 1]>>
    ELSE DisplayU32(n \div 10) \o <<DigitChars[(n % 10) + 1]>>

\* Path::display(): lossy, a non-UTF-8 byte prints as U+FFFD
DisplayPath(p) ==
    [i \in DOMAIN p |-> IF p[i] = InvalidByte THEN ReplacementChar ELSE p[i]]

DigitValue(c) == CHOOSE d \in 0..9 : DigitChars[d + 1] = c

RECURSIVE DigitsValue(_)
DigitsValue(s) ==
    IF s = <<>> THEN 0
    ELSE 10 * DigitsValue(SubSeq(s, 1, Len(s) - 1)) + DigitValue(s[Len(s)])

\* str::parse::<u32>(): an optional leading '+', then one or more decimal
\* digits; anything else (empty text, '-', a letter, a blank) is an error
ParseU32(s) ==
    LET digits == IF s # <<>> /\ s[1] = "+" THEN Tail(s) ELSE s
    IN  IF digits = <<>> \/ \E i \in DOMAIN digits : digits[i] \notin Range(DigitChars)
        THEN [ok |-> FALSE, val |-> 0]
        ELSE [ok |-> TRUE, val |-> DigitsValue(digits)]

\* str::parse::<PathBuf>(): infallible, the path is the text itself
ParsePath(s) == s

\* str::split(sep): the pieces between the separators, empty pieces kept
RECURSIVE SplitOn(_, _)
SplitOn(s, sep) ==
    IF \A i \in DOMAIN s : s[i] # sep THEN <<s>>
    ELSE LET k == CHOOSE i \in DOMAIN s :
                      s[i] = sep /\ \A j \in 1..(i - 1) : s[j] # sep
         IN  <<SubSeq(s, 1, k - 1)>> \o SplitOn(SubSeq(s, k + 1, Len(s)), sep)

\* BufRead::lines(): split at line feeds, no final empty line, and a
\* carriage return before the line feed is dropped
Lines(content) ==
    LET pieces == SplitOn(content, LF)
        kept == IF pieces[Len(pieces)] = <<>>
                THEN SubSeq(pieces, 1, Len(pieces) - 1) ELSE pieces
        StripCR(l) == IF l # <<>> /\ l[Len(l)] = "\r"
                      THEN SubSeq(l, 1, Len(l) - 1) ELSE l
    IN  [i \in DOMAIN kept |-> StripCR(kept[i])]

IsWhitespace(c) == c \in {" ", "\t", "\r", LF}

\* str::trim(): leading and trailing whitespace removed
Trim(s) ==
    IF \A i \in DOMAIN s : IsWhitespace(s[i]) THEN <<>>
    ELSE LET a == CHOOSE i \in DOMAIN s :
                      ~IsWhitespace(s[i]) /\ \A j \in 1..(i - 1) : IsWhitespace(s[j])
             b == CHOOSE i \in DOMAIN s :
                      ~IsWhitespace(s[i]) /\ \A j \in (i + 1)..Len(s) : IsWhitespace(s[j])
         IN  SubSeq(s, a, b)

\* writeln!(file, "{key}={value}")
Writeln(content, key, value) == content \o key \o <<"=">> \o value \o <<LF>>

---------------------------------------------------------------------------
(* The manifest (struct InstallConfig) and the optional values.            *)

NoPath == <<>>

NoPackage == [some |-> FALSE, val |-> NoPath]

\* the values read_from_file starts from: 0, 0 and PathBuf::new()
EmptyManifest ==
    [uid |-> 0, gid |-> 0, package |-> NoPackage, config_path |-> NoPath,
     download_path |-> NoPath, mount_bind_download_path |-> NoPath]

None == [some |-> FALSE, val |-> EmptyManifest]

Some(v) == [some |-> TRUE, val |-> v]

Absent == [exists |-> FALSE, content |-> <<>>]

Present(content) == [exists |-> TRUE, content |-> content]

\* the five writeln! calls of write_to_file
FormatManifest(self) ==
    LET l1 == Writeln(<<>>, K_uid, DisplayU32(self.uid))
        l2 == Writeln(l1, K_gid, DisplayU32(self.gid))
        l3 == Writeln(l2, K_config_path, DisplayPath(self.config_path))
        l4 == Writeln(l3, K_download_path, DisplayPath(self.download_path))
    IN  Writeln(l4, K_mount_bind_download_path,
                DisplayPath(self.mount_bind_download_path))

\* InstallConfig::remove_file on disk state f: the outcome and the new file
remove_file_nocheck(f, writable) ==
    IF f.exists /\ writable THEN [res |-> "Ok", file |-> Absent]
    ELSE [res |-> "IoError", file |-> f]

remove_file(f, writable) ==
    IF f.exists
    THEN IF writable THEN [res |-> "Ok", file |-> Absent]
         ELSE [res |-> "IoError", file |-> f]
    ELSE [res |-> "Ok", file |-> f]

\* InstallConfig::write_to_file
write_to_file_bail(self, f, writable) ==
    IF ~f.exists
    THEN IF writable THEN [res |-> "Ok", file |-> Present(FormatManifest(self))]
         ELSE [res |-> "IoError", file |-> f]
    ELSE [res |-> "AlreadyInstalled", file |-> f]

write_to_file_truncate(self, f, writable) ==
    IF writable THEN [res |-> "Ok", file |-> Present(FormatManifest(self))]
    ELSE [res |-> "IoError", file |-> f]

write_to_file(self, f, writable) ==
    IF ~f.exists
    THEN IF writable THEN [res |-> "Ok", file |-> Present(FormatManifest(self))]
         ELSE [res |-> "IoError", file |-> f]
    ELSE [res |-> "Ok", file |-> f]

\* one pass of the loop body of read_from_file over an already read line
ReadLine(raw, m) ==
    LET line == Trim(raw)
        split == SplitOn(line, "=")
        key == split[1]
        value == IF Len(split) >= 2 THEN split[2] ELSE <<>>
        num == ParseU32(value)
    IN  IF line = <<>> THEN [ok |-> TRUE, val |-> m]
        ELSE IF key = K_uid
             THEN [ok |-> num.ok, val |-> [m EXCEPT !.uid = num.val]]
        ELSE IF key = K_gid
             THEN [ok |-> num.ok, val |-> [m EXCEPT !.gid = num.val]]
        ELSE IF key = K_config_path
             THEN [ok |-> TRUE, val |-> [m EXCEPT !.config_path = ParsePath(value)]]
        ELSE IF key = K_download_path
             THEN [ok |-> TRUE, val |-> [m EXCEPT !.download_path = ParsePath(value)]]
        ELSE IF key = K_mount_bind_download_path
             THEN [ok |-> TRUE,
                   val |-> [m EXCEPT !.mount_bind_download_path = ParsePath(value)]]
        ELSE [ok |-> TRUE, val |-> m]

\* the for loop of read_from_file: the first failing parse ends it
RECURSIVE ReadLines(_, _)
ReadLines(lines, m) ==
    IF lines = <<>> THEN [res |-> "Ok", val |-> m]
    ELSE LET r == ReadLine(Head(lines), m)
         IN  IF r.ok THEN ReadLines(Tail(lines), r.val)
             ELSE [res |-> "ParseError", val |-> EmptyManifest]

\* InstallConfig::read_from_file
read_from_file_nocheck(f) == ReadLines(Lines(f.content), EmptyManifest)

read_from_file(f) ==
    IF ~f.exists THEN [res |-> "NotInstalled", val |-> EmptyManifest]
    ELSE ReadLines(Lines(f.content), EmptyManifest)

---------------------------------------------------------------------------
(* Inputs: command lines and the files an operator may have left behind.   *)

Uids == {0, MaxUid}

P_a == <<"/", "a">>
P_b == <<"/", "b">>
P_c == <<"/", "c">>
P_pkg == <<"/", "p">>
P_a_eq_b == <<"/", "a", "=", "b">>
P_b_space == <<"/", "b", " ">>
P_c_raw == <<"/", InvalidByte>>

\* (package, config_path, download_path, mount_bind_download_path)
CliPaths ==
    { <<NoPackage, P_a, P_b, P_c>>,
      <<[some |-> TRUE, val |-> P_pkg], P_a_eq_b, P_b_space, P_c>>,
      <<NoPackage, P_a, P_b, P_c_raw>> }

CliConfigs ==
    { [uid |-> u, gid |-> g, package |-> p[1], config_path |-> p[2],
       download_path |-> p[3], mount_bind_download_path |-> p[4]] :
      u \in Uids, g \in Uids, p \in CliPaths }

Commands == {"install", "uninstall", "run", "start", "stop", "status", "log"}

\* a manifest cut short: only uid=0 and gid=0
PartialFile == Writeln(Writeln(<<>>, K_uid, <<"0">>), K_gid, <<"0">>)

\* a manifest whose uid is not a number
UnparseableFile == Writeln(<<>>, K_uid, <<"x">>)

\* a blank line, an unknown key, padding, and no final line feed
HandEditedFile ==
    <<LF, " ">> \o <<"f", "o", "o", "=", "1", " ", LF>> \o K_gid \o <<"=", "+", "7">>

InitFiles ==
    {Absent, Present(PartialFile), Present(UnparseableFile), Present(HandEditedFile)}

NoOp == [op |-> "none", pre |-> Absent, res |-> "Ok"]

NoComponent == [name |-> "none", arg |-> None]

NoSeq == [started |-> FALSE, first |-> EmptyManifest, wrote |-> FALSE]

Min(a, b) == IF a < b THEN a ELSE b

---------------------------------------------------------------------------
(* The components main() hands over to.  They live in the modules install, *)
(* daemon and serve; what is modelled is their effect on the manifest file *)
(* and on the PID file.                                                    *)

\* XunleiInstall::run: may fail at any step, never touches the manifest
Installer_run(f) ==
    {[res |-> "Ok", file |-> f], [res |-> "InstallerError", file |-> f]}

\* XunleiUninstall::run: removes the manifest file, logs and continues
Uninstaller_run(f, writable) ==
    LET r == remove_file(f, writable)
    IN  [res |-> "Ok", removeRes |-> r.res, file |-> r.file]

\* Serve::run: runs until the payload ends, never touches the manifest
Serve_run(f) ==
    {[res |-> "Ok", file |-> f], [res |-> "ServeError", file |-> f]}

\* daemon::start: refuses when the PID file names a live process, else
\* detaches and records the PID
daemon_start(pid) ==
    IF pid = "live" THEN [res |-> "AlreadyRunning", pid |-> pid]
    ELSE [res |-> "Ok", pid |-> "live"]

\* daemon::stop: terminates the process if any and removes the PID file
daemon_stop(pid) == [res |-> "Ok", pid |-> "absent"]

\* daemon::status: reports, and removes a stale PID file
daemon_status(pid) ==
    [res |-> "Ok", pid |-> IF pid = "stale" THEN "absent" ELSE pid]

\* daemon::log: streams the log file
daemon_log(pid) == [res |-> "Ok", pid |-> pid]

\* the detached process ends: its PID file now names a dead process
detached_exit(pid) == IF pid = "live" THEN "stale" ELSE pid

---------------------------------------------------------------------------
(* main().                                                                 *)

FirstPc(c) ==
    CASE c = "install" -> "write_to_file"
      [] c \in {"uninstall", "run"} -> "read_from_file"
      [] c = "start" -> "daemon_start"
      [] c = "stop" -> "daemon_stop"
      [] c = "status" -> "daemon_status"
      [] c = "log" -> "daemon_log"

Init ==
    /\ file \in InitFiles
    /\ etcWritable \in BOOLEAN
    /\ pidFile = "absent"
    /\ cmd = "none"
    /\ pc = "idle"
    /\ config = None
    /\ install_config = None
    /\ exit = "Ok"
    /\ events = <<>>
    /\ lastOp = NoOp
    /\ component = NoComponent
    /\ installSeq = NoSeq
    /\ removeRun = 0

\* let opt = Opt::parse(); match opt.commands
Opt_parse ==
    /\ cmd = "none"
    /\ \E c \in Commands, cfg \in CliConfigs :
        /\ cmd' = c
        /\ pc' = FirstPc(c)
        /\ config' = IF c = "install" THEN Some(cfg) ELSE None
    /\ install_config' = None
    /\ exit' = "running"
    /\ events' = <<>>
    /\ lastOp' = NoOp
    /\ component' = NoComponent
    /\ UNCHANGED <<file, etcWritable, pidFile, installSeq, removeRun>>

\* Install arm: config.write_to_file()?
InstallWrite_ignore_err ==
    /\ cmd = "install" /\ pc = "write_to_file"
    /\ LET r == write_to_file(config.val, file, etcWritable)
       IN  /\ file' = r.file
           /\ lastOp' = [op |-> "write", pre |-> file, res |-> r.res]
           /\ pc' = "Installer"
           /\ installSeq' = IF installSeq.started THEN installSeq
                            ELSE [started |-> TRUE, first |-> config.val,
                                  wrote |-> ~file.exists /\ r.file.exists]
           /\ removeRun' = IF r.file # file THEN 0 ELSE removeRun
    /\ events' = Append(events, [call |-> "write_to_file", res |-> lastOp'.res])
    /\ UNCHANGED <<etcWritable, pidFile, cmd, config, install_config, exit, component>>

InstallWrite ==
    /\ cmd = "install" /\ pc = "write_to_file"
    /\ LET r == write_to_file(config.val, file, etcWritable)
       IN  /\ file' = r.file
           /\ lastOp' = [op |-> "write", pre |-> file, res |-> r.res]
           /\ IF r.res = "Ok"
              THEN pc' = "Installer" /\ exit' = exit
              ELSE pc' = "done" /\ exit' = r.res
           /\ installSeq' = IF installSeq.started THEN installSeq
                            ELSE [started |-> TRUE, first |-> config.val,
                                  wrote |-> ~file.exists /\ r.file.exists]
           /\ removeRun' = IF r.file # file THEN 0 ELSE removeRun
    /\ events' = Append(events, [call |-> "write_to_file", res |-> lastOp'.res])
    /\ UNCHANGED <<etcWritable, pidFile, cmd, config, install_config, component>>

\* Install arm: install::XunleiInstall(config).run()?
InstallerRun ==
    /\ cmd = "install" /\ pc = "Installer"
    /\ \E o \in Installer_run(file) :
        /\ file' = o.file
        /\ exit' = o.res
    /\ component' = [name |-> "Installer", arg |-> config]
    /\ events' = Append(events, [call |-> "Installer", res |-> exit'])
    /\ pc' = "done"
    /\ UNCHANGED <<etcWritable, pidFile, cmd, config, install_config, lastOp,
                   installSeq, removeRun>>

\* Uninstall arm: InstallConfig::read_from_file().map_or(None, |v| Some(v))
UninstallRead_propagate ==
    /\ cmd = "uninstall" /\ pc = "read_from_file"
    /\ LET r == read_from_file(file)
       IN  /\ install_config' = IF r.res = "Ok" THEN Some(r.val) ELSE None
           /\ lastOp' = [op |-> "read", pre |-> file, res |-> r.res]
           /\ IF r.res = "Ok"
              THEN pc' = "Uninstaller" /\ exit' = exit
              ELSE pc' = "done" /\ exit' = r.res
    /\ events' = Append(events, [call |-> "read_from_file", res |-> lastOp'.res])
    /\ installSeq' = NoSeq
    /\ UNCHANGED <<file, etcWritable, pidFile, cmd, config, component, removeRun>>

UninstallRead ==
    /\ cmd = "uninstall" /\ pc = "read_from_file"
    /\ LET r == read_from_file(file)
       IN  /\ install_config' = IF r.res = "Ok" THEN Some(r.val) ELSE None
           /\ lastOp' = [op |-> "read", pre |-> file, res |-> r.res]
    /\ events' = Append(events, [call |-> "read_from_file", res |-> lastOp'.res])
    /\ pc' = "Uninstaller"
    /\ installSeq' = NoSeq
    /\ UNCHANGED <<file, etcWritable, pidFile, cmd, config, exit, component,
                   removeRun>>

\* Uninstall arm: install::XunleiUninstall(install_config).run()?
UninstallerRun ==
    /\ cmd = "uninstall" /\ pc = "Uninstaller"
    /\ LET u == Uninstaller_run(file, etcWritable)
       IN  /\ file' = u.file
           /\ lastOp' = [op |-> "remove", pre |-> file, res |-> u.removeRes]
           /\ exit' = u.res
           /\ removeRun' = IF file.exists /\ ~u.file.exists THEN 1
                           ELSE IF removeRun > 0
                                THEN Min(removeRun + 1, MaxRemoveRun)
                                ELSE 0
    /\ component' = [name |-> "Uninstaller", arg |-> install_config]
    /\ events' = Append(events, [call |-> "Uninstaller", res |-> exit'])
    /\ pc' = "done"
    /\ UNCHANGED <<etcWritable, pidFile, cmd, config, install_config, installSeq>>


\* Run arm: the argument InstallConfig::read_from_file()? of Serve::new
RunRead_create ==
    /\ cmd = "run" /\ pc = "read_from_file"
    /\ LET f == IF file.exists THEN file ELSE Present(<<>>)
           r == read_from_file(f)
       IN  /\ file' = f
           /\ lastOp' = [op |-> "read", pre |-> file, res |-> r.res]
           /\ IF r.res = "Ok"
              THEN /\ install_config' = Some(r.val)
                   /\ pc' = "Serve_new"
                   /\ exit' = exit
              ELSE /\ install_config' = None
                   /\ pc' = "done"
                   /\ exit' = r.res
    /\ events' = Append(events, [call |-> "read_from_file", res |-> lastOp'.res])
    /\ UNCHANGED <<etcWritable, pidFile, cmd, config, component, installSeq,
                   removeRun>>

RunRead ==
    /\ cmd = "run" /\ pc = "read_from_file"
    /\ LET r == read_from_file(file)
       IN  /\ lastOp' = [op |-> "read", pre |-> file, res |-> r.res]
           /\ IF r.res = "Ok"
              THEN /\ install_config' = Some(r.val)
                   /\ pc' = "Serve_new"
                   /\ exit' = exit
              ELSE /\ install_config' = None
                   /\ pc' = "done"
                   /\ exit' = r.res
    /\ events' = Append(events, [call |-> "read_from_file", res |-> lastOp'.res])
    /\ UNCHANGED <<file, etcWritable, pidFile, cmd, config, component, installSeq,
                   removeRun>>

\* Start arm: daemon::start()?
StartDaemon_ignore_err ==
    /\ cmd = "start" /\ pc = "daemon_start"
    /\ LET d == daemon_start(pidFile)
       IN  /\ pidFile' = d.pid
           /\ pc' = "read_from_file"
    /\ events' = Append(events, [call |-> "daemon_start", res |-> daemon_start(pidFile).res])
    /\ UNCHANGED <<file, etcWritable, cmd, config, install_config, exit, lastOp,
                   component, installSeq, removeRun>>

StartDaemon ==
    /\ cmd = "start" /\ pc = "daemon_start"
    /\ LET d == daemon_start(pidFile)
       IN  /\ pidFile' = d.pid
           /\ IF d.res = "Ok"
              THEN pc' = "read_from_file" /\ exit' = exit
              ELSE pc' = "done" /\ exit' = d.res
    /\ events' = Append(events, [call |-> "daemon_start", res |-> daemon_start(pidFile).res])
    /\ UNCHANGED <<file, etcWritable, cmd, config, install_config, lastOp,
                   component, installSeq, removeRun>>

\* Start arm: the argument InstallConfig::read_from_file()? of Serve::new;
\* on an error the detached process returns from main()
StartRead ==
    /\ cmd = "start" /\ pc = "read_from_file"
    /\ LET r == read_from_file(file)
       IN  /\ lastOp' = [op |-> "read", pre |-> file, res |-> r.res]
           /\ IF r.res = "Ok"
              THEN /\ install_config' = Some(r.val)
                   /\ pc' = "Serve_new"
                   /\ exit' = exit
                   /\ pidFile' = pidFile
              ELSE /\ install_config' = None
                   /\ pc' = "done"
                   /\ exit' = r.res
                   /\ pidFile' = detached_exit(pidFile)
    /\ events' = Append(events, [call |-> "read_from_file", res |-> lastOp'.res])
    /\ UNCHANGED <<file, etcWritable, cmd, config, component, installSeq, removeRun>>

\* Run and Start arms: serve::Serve::new(config, manifest)
ServeNew ==
    /\ cmd \in {"run", "start"} /\ pc = "Serve_new"
    /\ component' = [name |-> "Serve", arg |-> install_config]
    /\ events' = Append(events, [call |-> "Serve_new", res |-> "Ok"])
    /\ pc' = "Serve_run"
    /\ UNCHANGED <<file, etcWritable, pidFile, cmd, config, install_config, exit,
                   lastOp, installSeq, removeRun>>

\* Run and Start arms: .run()?  After `start` the front end stays in the
\* background when it did not fail; the invocation is over either way.
ServeRun ==
    /\ cmd \in {"run", "start"} /\ pc = "Serve_run"
    /\ \E o \in Serve_run(file) :
        /\ file' = o.file
        /\ exit' = o.res
        /\ pidFile' = IF cmd = "start" /\ o.res # "Ok"
                      THEN detached_exit(pidFile) ELSE pidFile
    /\ events' = Append(events, [call |-> "Serve_run", res |-> exit'])
    /\ pc' = "done"
    /\ UNCHANGED <<etcWritable, cmd, config, install_config, lastOp, component,
                   installSeq, removeRun>>

\* Stop arm: daemon::stop()?
Stop ==
    /\ cmd = "stop" /\ pc = "daemon_stop"
    /\ LET d == daemon_stop(pidFile)
       IN  pidFile' = d.pid /\ exit' = d.res
    /\ events' = Append(events, [call |-> "daemon_stop", res |-> exit'])
    /\ pc' = "done"
    /\ UNCHANGED <<file, etcWritable, cmd, config, install_config, lastOp,
                   component, installSeq, removeRun>>

\* Status arm: daemon::status()?
Status ==
    /\ cmd = "status" /\ pc = "daemon_status"
    /\ LET d == daemon_status(pidFile)
       IN  pidFile' = d.pid /\ exit' = d.res
    /\ events' = Append(events, [call |-> "daemon_status", res |-> exit'])
    /\ pc' = "done"
    /\ UNCHANGED <<file, etcWritable, cmd, config, install_config, lastOp,
                   component, installSeq, removeRun>>

\* Log arm: daemon::log()?
Log ==
    /\ cmd = "log" /\ pc = "daemon_log"
    /\ LET d == daemon_log(pidFile)
       IN  pidFile' = d.pid /\ exit' = d.res
    /\ events' = Append(events, [call |-> "daemon_log", res |-> exit'])
    /\ pc' = "done"
    /\ UNCHANGED <<file, etcWritable, cmd, config, install_config, lastOp,
                   component, installSeq, removeRun>>

\* main() returns (Ok(()) or the propagated error); the shell is free again
Return ==
    /\ pc = "done"
    /\ cmd' = "none"
    /\ pc' = "idle"
    /\ config' = None
    /\ install_config' = None
    /\ events' = <<>>
    /\ lastOp' = NoOp
    /\ component' = NoComponent
    /\ UNCHANGED <<file, etcWritable, pidFile, exit, installSeq, removeRun>>

\* the payload behind the background front end ends between two commands
PayloadExit ==
    /\ cmd = "none"
    /\ pidFile = "live"
    /\ pidFile' = detached_exit(pidFile)
    /\ UNCHANGED <<file, etcWritable, cmd, pc, config, install_config, exit,
                   events, lastOp, component, installSeq, removeRun>>

Next ==
    \/ Opt_parse
    \/ InstallWrite
    \/ InstallerRun
    \/ UninstallRead
    \/ UninstallerRun
    \/ RunRead
    \/ StartDaemon
    \/ StartRead
    \/ ServeNew
    \/ ServeRun
    \/ Stop
    \/ Status
    \/ Log
    \/ Return
    \/ PayloadExit

Spec == Init /\ [][Next]_vars

---------------------------------------------------------------------------
(* Properties.                                                             *)

Calls == [i \in DOMAIN events |-> events[i].call]

\* the key of a trimmed line and all of the text after its first '='
KeyOf(line) == SplitOn(line, "=")[1]

AfterFirstEq(line) ==
    IF \A i \in DOMAIN line : line[i] # "=" THEN <<>>
    ELSE LET k == CHOOSE i \in DOMAIN line :
                      line[i] = "=" /\ \A j \in 1..(i - 1) : line[j] # "="
         IN  SubSeq(line, k + 1, Len(line))

IsText(p) == InvalidByte \notin Range(p)

C2_RoundTrip ==
    (/\ cmd \in {"run", "start"} /\ lastOp.op = "read" /\ installSeq.wrote
     /\ IsText(installSeq.first.config_path)
     /\ IsText(installSeq.first.download_path)
     /\ IsText(installSeq.first.mount_bind_download_path)) =>
        /\ lastOp.res = "Ok"
        /\ install_config = Some([installSeq.first EXCEPT !.package = NoPackage])

\* C3: read takes as the value of a key all of the text after the first '='
\* of the line, so a config_path holding '=' is returned whole.
C3_ValueIsAllAfterFirstEq ==
    (lastOp.op = "read" /\ lastOp.res = "Ok") =>
        \A raw \in Range(Lines(lastOp.pre.content)) :
            LET line == Trim(raw)
            IN  (line # <<>> /\ KeyOf(line) = K_config_path) =>
                    install_config.val.config_path = AfterFirstEq(line)

\* C4: a read of an absent manifest file returns NotInstalled and creates
\* nothing, and `run` then ends with that error, Serve neither constructed
\* nor run.
C4_RunFailsFastWhenAbsent ==
    /\ (lastOp.op = "read" /\ ~lastOp.pre.exists) =>
           lastOp.res = "NotInstalled" /\ file = Absent
    /\ (cmd = "run" /\ lastOp.op = "read" /\ ~lastOp.pre.exists) =>
           /\ pc = "done"
           /\ exit = "NotInstalled"
           /\ component.name = "none"
           /\ Calls = <<"read_from_file">>

C4_RunEndedNotInstalled ==
    /\ cmd = "run" /\ pc = "done"
    /\ lastOp.op = "read" /\ ~lastOp.pre.exists
    /\ exit = "NotInstalled"

\* C5: remove succeeds whether or not the manifest file exists and leaves
\* it absent (the deletion itself not failing); a remove that finds no file
\* succeeds and changes nothing, so remove(); remove() ends as one remove().
C5_RemoveIdempotent ==
    lastOp.op = "remove" =>
        /\ ~lastOp.pre.exists => (lastOp.res = "Ok" /\ file = lastOp.pre)
        /\ (lastOp.pre.exists /\ etcWritable) => (lastOp.res = "Ok" /\ file = Absent)

C5_RemovedTwice ==
    /\ lastOp.op = "remove" /\ ~lastOp.pre.exists /\ lastOp.res = "Ok"
    /\ removeRun >= 2
    /\ file = Absent

\* C6: after installs with no uninstall in between, the manifest file holds
\* exactly the five lines written by the first of them; a write that finds
\* the file present leaves it unchanged.
C6_KeepsFirstManifest ==
    /\ installSeq.wrote =>
           /\ file = Present(FormatManifest(installSeq.first))
           /\ Len(Lines(file.content)) = 5
    /\ (lastOp.op = "write" /\ lastOp.pre.exists) => file = lastOp.pre

C6_ReinstallWithOtherOptions ==
    /\ cmd = "install" /\ pc = "done"
    /\ installSeq.wrote
    /\ lastOp.op = "write" /\ lastOp.pre.exists
    /\ config.val # installSeq.first
    /\ file.content # FormatManifest(config.val)

\* C7: `uninstall` turns the read outcome into an optional manifest (none on
\* any read failure, defaults for the keys a partial file lacks), never ends
\* on a read error, and always runs the Uninstaller with that option.
C7_UninstallNeverBlocked ==
    cmd = "uninstall" =>
        /\ exit \in {"running", "Ok"}
        /\ pc = "Uninstaller" =>
               /\ lastOp.op = "read"
               /\ install_config.some = (lastOp.res = "Ok")
               /\ file = Present(PartialFile) => install_config = Some(EmptyManifest)
               /\ file \in {Absent, Present(UnparseableFile)} => install_config = None
        /\ pc = "done" =>
               /\ component = [name |-> "Uninstaller", arg |-> install_config]
               /\ Calls = <<"read_from_file", "Uninstaller">>

C7_UninstalledUnparseable ==
    /\ cmd = "uninstall" /\ pc = "done" /\ exit = "Ok"
    /\ lastOp.pre = Present(UnparseableFile)
    /\ component = [name |-> "Uninstaller", arg |-> None]

\* C8: the manifest file changes only by being created by `install` or
\* removed by `uninstall`; `stop`, `status` and `log` never read it.
C8_ManifestFrame ==
    [][/\ file' # file =>
              \/ cmd = "install" /\ ~file.exists /\ file'.exists
              \/ cmd = "uninstall" /\ file.exists /\ ~file'.exists
       /\ cmd' \in {"stop", "status", "log"} =>
              /\ lastOp'.op = "none"
              /\ "read_from_file" \notin Range(Calls')]_vars

C8_StatusLeftManifest ==
    /\ cmd = "status" /\ pc = "done"
    /\ installSeq.wrote /\ file.exists
    /\ lastOp.op = "none"

\* C9: in `install` the Installer starts only after the manifest write has
\* returned Ok, a failed write ends the command without the Installer, a
\* failed Installer leaves the manifest written by this invocation in
\* place, and the Installer gets the command-line configuration.
C9_InstallOrdering ==
    cmd = "install" =>
        /\ "Installer" \in Range(Calls) =>
               /\ Calls = <<"write_to_file", "Installer">>
               /\ events[1].res = "Ok"
               /\ component = [name |-> "Installer", arg |-> config]
        /\ pc = "Installer" => (Calls = <<"write_to_file">> /\ events[1].res = "Ok")
        /\ (events # <<>> /\ events[1].res # "Ok") =>
               /\ pc = "done"
               /\ exit = events[1].res
               /\ Calls = <<"write_to_file">>
               /\ component.name = "none"
        /\ (pc = "done" /\ exit = "InstallerError" /\ ~lastOp.pre.exists) =>
               file = Present(FormatManifest(config.val))

C9_InstallerFailedManifestKept ==
    /\ cmd = "install" /\ pc = "done" /\ exit = "InstallerError"
    /\ lastOp.op = "write" /\ ~lastOp.pre.exists
    /\ file.exists

\* C10: in `start` the Supervisor start runs first; when it fails the
\* manifest is not read and Serve is not run; a missing manifest is found
\* only after the Supervisor start has taken effect, and Serve is not run.
C10_StartOrdering ==
    (cmd = "start" /\ events # <<>>) =>
        /\ events[1].call = "daemon_start"
        /\ events[1].res # "Ok" =>
               /\ Len(events) = 1
               /\ pc = "done"
               /\ exit = events[1].res
               /\ lastOp.op = "none"
               /\ component.name = "none"
        /\ lastOp.op = "read" =>
               /\ events[2].call = "read_from_file"
               /\ events[1].res = "Ok"
               /\ pidFile # "absent"
        /\ (lastOp.op = "read" /\ ~lastOp.pre.exists) =>
               /\ exit = "NotInstalled"
               /\ Calls = <<"daemon_start", "read_from_file">>
               /\ component.name = "none"
               /\ pidFile = "stale"
        /\ component.name = "Serve" =>
               SubSeq(Calls, 1, 3) = <<"daemon_start", "read_from_file", "Serve_new">>

C10_NotInstalledAfterDaemonStart ==
    /\ cmd = "start" /\ pc = "done" /\ exit = "NotInstalled"
    /\ Calls = <<"daemon_start", "read_from_file">>
    /\ pidFile = "stale"

=============================================================================
